---------------------------- MODULE Spec2Model ----------------------------
(***************************************************************************)
(* Vertical structure of an accretion disc (src/bin/vs.py).                *)
(*                                                                         *)
(* The model follows one session object of BaseVerticalStructure as used   *)
(* by IdealKramersVerticalStructure: construction, the z0 property setter, *)
(* the shooting solver fit() with its nested residual dq(), the root       *)
(* refiner brentq, the interior integration (initial, dydt, dlnTdlnP) and  *)
(* the parameters the caller passes.                                       *)
(*                                                                         *)
(* Numbers.  A float is an extended rational <<n, d>> in lowest terms with *)
(* d >= 0:  <<1,0>> is +inf, <<-1,0>> is -inf and <<0,0>> is NaN, with the *)
(* IEEE rules numpy applies to them (x/0 = inf, 0/0 = NaN, NaN compares    *)
(* false).  Like a float it has finite precision: a result is exact while  *)
(* numerator and denominator are below Cap and is rounded otherwise, to    *)
(* inf when it is too large and to 0 when it is too small.  Dimensional    *)
(* constants are written in model units.  An operand is evaluated once,    *)
(* as Python evaluates the arguments of a call: Only binds its value.      *)
(***************************************************************************)
EXTENDS Integers, Sequences, FiniteSets, TLC

-----------------------------------------------------------------------------
(* Extended rational arithmetic *)

\* the element of a one-element set
Only(S) == CHOOSE v \in S : TRUE

Abs(x) == IF x < 0 THEN -x ELSE x

Sgn(x) == IF x < 0 THEN -1 ELSE IF x > 0 THEN 1 ELSE 0

RECURSIVE Gcd(_, _)
Gcd(a, b) == IF b = 0 THEN a ELSE Only({Gcd(b, m) : m \in {a % b}})

\* gcd used for cancelling; 1 when both arguments vanish
Cancel(a, b) ==
    IF a = 0 /\ b = 0 THEN 1 ELSE Only({Gcd(p, q) : p \in {Abs(a)}, q \in {Abs(b)}})

\* numerators and denominators of the number format stay below Cap
Cap == 2^15

\* rounding: drop low bits of both terms until they fit the format
RECURSIVE Fit(_, _)
Fit(n, d) ==
    IF Abs(n) < Cap /\ d < Cap THEN <<n, d>>
    ELSE Only({Fit(m, e) : m \in {Sgn(n) * (Abs(n) \div 2)}, e \in {d \div 2}})

Reduce(n, d) == Only({<<n \div g, d \div g>> : g \in {Cancel(n, d)}})

\* a rounded pair as a number of the format
Rounded(f) == IF f[2] = 0 THEN <<Sgn(f[1]), 0>> ELSE Reduce(f[1], f[2])

\* n / d, with n and d in lowest terms and d >= 0, as a number of the format
NormLow(n, d) ==
    IF d = 0 THEN <<Sgn(n), 0>>
    ELSE IF Abs(n) < Cap /\ d < Cap THEN <<n, d>>
    ELSE Only({Rounded(f) : f \in {Fit(n, d)}})

\* n / d as a number of the format
Norm(n0, d0) ==
    Only({IF d = 0 THEN <<Sgn(n), 0>>
          ELSE IF d < 0 THEN Only({NormLow(e[1], e[2]) : e \in {Reduce(-n, -d)}})
          ELSE Only({NormLow(e[1], e[2]) : e \in {Reduce(n, d)}})
          : n \in {n0}, d \in {d0}})

R(n) == <<n, 1>>
Frac(n, d) == Norm(n, d)
NaN == <<0, 0>>
Inf == <<1, 0>>
Zero == <<0, 1>>
One == <<1, 1>>

IsNaN(a) == a = NaN
IsFinite(a) == a[2] # 0
IsPos(a) == a[1] > 0
IsNeg(a) == a[1] < 0
IsZero(a) == a = Zero

RNeg(x) == Only({<<-a[1], a[2]>> : a \in {x}})
RAbs(x) == Only({<<Abs(a[1]), a[2]>> : a \in {x}})

\* the product of two numbers with the common factors g1, g2 taken out crosswise
MulBy(a, b, g1, g2) ==
    NormLow((a[1] \div g1) * (b[1] \div g2), (a[2] \div g2) * (b[2] \div g1))

RMul(x, w) ==
    Only({Only({MulBy(a, b, g1, g2) : g1 \in {Cancel(a[1], b[2])},
                                      g2 \in {Cancel(b[1], a[2])}})
          : a \in {x}, b \in {w}})

RInv(x) ==
    Only({IF a[1] = 0 THEN (IF a[2] = 0 THEN NaN ELSE Inf)
          ELSE IF a[1] < 0 THEN <<-a[2], -a[1]>>
          ELSE <<a[2], a[1]>>
          : a \in {x}})

RDiv(a, b) == RMul(a, RInv(b))

\* the sum of two finite numbers over the common denominator, g = gcd of the two
AddBy(a, b, g) ==
    Norm(a[1] * (b[2] \div g) + b[1] * (a[2] \div g), (a[2] \div g) * b[2])

RAdd(x, w) ==
    Only({IF IsNaN(a) \/ IsNaN(b) THEN NaN
          ELSE IF ~IsFinite(a) /\ ~IsFinite(b) THEN (IF a = b THEN a ELSE NaN)
          ELSE IF ~IsFinite(a) THEN a
          ELSE IF ~IsFinite(b) THEN b
          ELSE Only({AddBy(a, b, g) : g \in {Cancel(a[2], b[2])}})
          : a \in {x}, b \in {w}})

RSub(a, b) == RAdd(a, RNeg(b))

\* a < b as numpy compares floats: false when either side is NaN
RLt(x, w) ==
    \E a \in {x}, b \in {w} : ~IsNaN(a) /\ ~IsNaN(b) /\ IsNeg(RSub(a, b))

RLe(x, w) ==
    \E a \in {x}, b \in {w} : ~IsNaN(a) /\ ~IsNaN(b) /\ (a = b \/ IsNeg(RSub(a, b)))

RECURSIVE IPow(_, _)
IPow(n, k) == IF k = 0 THEN 1 ELSE n * IPow(n, k - 1)

\* a ** k for k >= 0, by squaring, each product rounded
RECURSIVE RPowN(_, _)
RPowN(a, k) ==
    IF k = 0 THEN One
    ELSE IF k = 1 THEN a
    ELSE Only({IF k % 2 = 0 THEN RPowN(sq, h) ELSE RMul(a, RPowN(sq, h))
               : sq \in {RMul(a, a)}, h \in {k \div 2}})

\* a ** k for an integer k
RPow(x, k) ==
    Only({IF k >= 0 THEN RPowN(a, k) ELSE RInv(RPowN(a, -k)) : a \in {x}})

\* the largest base whose k-th power is a machine integer of the model checker
RootCap(k) == IF k = 2 THEN 46340 ELSE IF k = 4 THEN 215 ELSE IF k = 10 THEN 8 ELSE 2

\* largest x in lo..hi with x^k <= n, by bisection (n >= 0, lo^k <= n)
RECURSIVE RootIn(_, _, _, _)
RootIn(n, k, lo, hi) ==
    IF lo >= hi THEN lo
    ELSE Only({IF IPow(mid, k) <= n THEN RootIn(n, k, mid, hi)
               ELSE Only({RootIn(n, k, lo, top) : top \in {mid - 1}})
               : mid \in {(lo + hi + 1) \div 2}})

IRoot(n, k) == RootIn(n, k, 0, RootCap(k))

\* a ** (1/k), rounded on numerator and denominator; NaN for a negative base
RRoot(x, k) ==
    Only({IF IsNaN(a) \/ IsNeg(a) THEN NaN
          ELSE IF ~IsFinite(a) THEN Inf
          ELSE IF IsZero(a) THEN Zero
          ELSE Norm(IRoot(a[1], k), IRoot(a[2], k))
          : a \in {x}})

\* a ** (p/q) as numpy evaluates a float power
RPowFrac(a, p, q) == RPow(RRoot(a, q), p)


-----------------------------------------------------------------------------
(* Physical constants (lines 18-21) and law parameters, in model units *)

sigmaSB == 1
R_gas == 1
G == 1
M_sun == 1

\* np.pi
Pi == Frac(22, 7)

\* KramersOpacityMixin: varkappa0, zeta; gamma = -7/2 is GammaNum / GammaDen
varkappa0 == 1
zeta == 1
GammaNum == -7
GammaDen == 2

\* the indices of Vars
Vars == [S |-> 1, P |-> 2, Q |-> 3, T |-> 4]

-----------------------------------------------------------------------------
(* The session object: BaseVerticalStructure *)

\* a session before __init__ has run: no attribute is set
NoSession ==
    [Mx |-> NaN, alpha |-> NaN, r |-> NaN, F |-> NaN, eps |-> NaN, mu |-> NaN,
     GM |-> NaN, omegaK |-> NaN, Q_norm |-> NaN, Q0 |-> NaN, Teff |-> NaN,
     z0 |-> NaN, P_norm |-> NaN, T_norm |-> NaN, sigma_norm |-> NaN]

\* z0_init(): r * 2.86e-7 * F^(3/20) * (Mx/M_sun)^(-9/20) * alpha^(-1/10) * (r/1e10)^(1/20)
\* (the coefficient 2.86e-7 and the reference radius 1e10 are 1 in model units)
z0_init(self) ==
    RMul(RMul(RMul(RMul(RMul(self.r, One), RPowFrac(self.F, 3, 20)),
                   RPowFrac(RDiv(self.Mx, R(M_sun)), -9, 20)),
              RPowFrac(self.alpha, -1, 10)),
         RPowFrac(RDiv(self.r, One), 1, 20))

\* a setter that forgets sigma_norm
z0_setter_stale(self, z0) ==
    Only({[self EXCEPT
             !.z0 = z,
             !.P_norm = RDiv(RMul(Frac(4, 3), self.Q_norm),
                             RMul(RMul(self.alpha, z), self.omegaK)),
             !.T_norm = RDiv(RMul(RMul(RPow(self.omegaK, 2), self.mu), RPow(z, 2)),
                             R(R_gas))]
          : z \in {z0}})

\* a setter that also rescales the reference flux with z0
z0_setter_flux(self, z0) ==
    Only({[self EXCEPT
             !.z0 = z,
             !.Q_norm = RMul(self.Q0, z),
             !.P_norm = RDiv(RMul(Frac(4, 3), self.Q_norm),
                             RMul(RMul(self.alpha, z), self.omegaK)),
             !.T_norm = RDiv(RMul(RMul(RPow(self.omegaK, 2), self.mu), RPow(z, 2)),
                             R(R_gas)),
             !.sigma_norm = RDiv(RMul(R(28), self.Q_norm),
                                 RMul(RMul(RMul(R(3), self.alpha), RPow(z, 2)),
                                      RPow(self.omegaK, 3)))]
          : z \in {z0}})

\* the z0 property setter: stores z0 and rescales P_norm, T_norm, sigma_norm
z0_setter(self, z0) ==
    Only({[self EXCEPT
             !.z0 = z,
             !.P_norm = RDiv(RMul(Frac(4, 3), self.Q_norm),
                             RMul(RMul(self.alpha, z), self.omegaK)),
             !.T_norm = RDiv(RMul(RMul(RPow(self.omegaK, 2), self.mu), RPow(z, 2)),
                             R(R_gas)),
             !.sigma_norm = RDiv(RMul(R(28), self.Q_norm),
                                 RMul(RMul(RMul(R(3), self.alpha), RPow(z, 2)),
                                      RPow(self.omegaK, 3)))]
          : z \in {z0}})

\* __init__ up to the call of z0_init(): the attributes set by lines 88-97
InitAttrs(Mx, alpha, r, F, eps, mu) ==
    Only({Only({Only({[NoSession EXCEPT !.mu = mu, !.Mx = Mx, !.GM = GM, !.alpha = alpha,
                                        !.r = r, !.F = F, !.omegaK = omegaK, !.eps = eps,
                                        !.Q_norm = Qn, !.Q0 = Qn]
                      : Qn \in {RDiv(RMul(RMul(RDiv(R(3), RMul(R(8), Pi)), F), omegaK),
                                     RPow(r, 2))}})
                : omegaK \in {RRoot(RDiv(GM, RPow(r, 3)), 2)}})
          : GM \in {RMul(R(G), Mx)}})

\* __init__ after z0_init() returned: lines 99-100
SetTeff(b) == [b EXCEPT !.Teff = RRoot(RDiv(b.Q0, R(sigmaSB)), 4)]

InitZ0(a) == Only({SetTeff(b) : b \in {z0_setter(a, z0_init(a))}})

Constructed(Mx, alpha, r, F, eps, mu) ==
    Only({InitZ0(a) : a \in {InitAttrs(Mx, alpha, r, F, eps, mu)}})

\* alpha ** (-1/10) and (Mx / M_sun) ** (-9/20) raise ZeroDivisionError on a zero base
Z0InitRaises(Mx, alpha) == IsZero(alpha) \/ IsZero(Mx)

-----------------------------------------------------------------------------
(* Physics laws *)

law_of_viscosity(self, P) == RMul(self.alpha, P)

\* IdealGasMixin.law_of_rho: P * mu / (R_gas * T)
law_of_rho(self, P, T) == RDiv(RMul(P, self.mu), RMul(R(R_gas), T))

\* KramersOpacityMixin.law_of_opacity: varkappa0 * rho^zeta * T^gamma
law_of_opacity(self, rh, T) ==
    RMul(RMul(R(varkappa0), RPow(rh, zeta)), RPowFrac(T, GammaNum, GammaDen))

viscosity(self, y) == law_of_viscosity(self, RMul(y[Vars.P], self.P_norm))

rho(self, y) == law_of_rho(self, RMul(y[Vars.P], self.P_norm), RMul(y[Vars.T], self.T_norm))

opacity(self, y) == law_of_opacity(self, rho(self, y), RMul(y[Vars.T], self.T_norm))

dQdz(self, y, t) ==
    RDiv(RMul(RMul(RMul(RNeg(Frac(3, 2)), self.z0), self.omegaK), viscosity(self, y)),
         self.Q_norm)

\* the closed form taken at the surface instead
UsesClosedForm_surface(t) == t = Zero

\* RadiativeTempGradient.dlnTdlnP: the closed form is taken when t == 1
UsesClosedForm(t) == t = One

\* the two formulas of dlnTdlnP, for the rho and varkappa it has computed
dlnTdlnP_rad(self, y, t, rh, varkappa) ==
    IF UsesClosedForm(t)
    THEN [branch |-> "closed",
          val |-> RDiv(RMul(RMul(RMul(RMul(RNeg(dQdz(self, y, t)),
                                           RDiv(y[Vars.P], RPow(y[Vars.T], 4))),
                                      R(3)), varkappa),
                            RDiv(RMul(self.Q_norm, self.P_norm), RPow(self.T_norm, 4))),
                       RMul(RMul(RMul(R(16), R(sigmaSB)), self.z0),
                            RPow(self.omegaK, 2)))]
    ELSE [branch |-> "general",
          val |-> RMul(RDiv(y[Vars.P], y[Vars.T]),
                       RDiv(\* dTdz
                            RDiv(RMul(RMul(RMul(RMul(RMul(RDiv(RAbs(y[Vars.Q]),
                                                               RPow(y[Vars.T], 3)),
                                                          R(3)), varkappa), rh),
                                           self.z0), self.Q_norm),
                                 RMul(RMul(R(16), R(sigmaSB)), RPow(self.T_norm, 4))),
                            \* dPdz
                            RDiv(RMul(RMul(RMul(rh, RSub(One, t)), RPow(self.omegaK, 2)),
                                      RPow(self.z0, 2)),
                                 self.P_norm)))]

dlnTdlnP(self, y, t) ==
    Only({dlnTdlnP_rad(self, y, t, rh, varkappa)
          : rh \in {rho(self, y)}, varkappa \in {opacity(self, y)}})

\* the test of line 191
NegativeState(y) == RLt(y[Vars.T], Zero) \/ RLt(y[Vars.S], Zero)

\* dy[Vars.P]
dy_P(self, t, rh) ==
    RDiv(RMul(RMul(RMul(rh, RSub(One, t)), RPow(self.omegaK, 2)), RPow(self.z0, 2)),
         self.P_norm)

\* dy with the mass coordinate counted downwards
dy_rows_down(self, t, y, rh, grad, dP) ==
    [t |-> t, y |-> y, printed |-> NegativeState(y), branch |-> grad.branch,
     dy |-> <<RNeg(RDiv(RMul(RMul(R(2), rh), self.z0), self.sigma_norm)),
              dP,
              dQdz(self, y, t),
              RDiv(RMul(RMul(grad.val, dP), y[Vars.T]), y[Vars.P])>>,
     computed |-> TRUE]

\* the four rows of dy, for the rho, the gradient and the dy[Vars.P] already computed
dy_rows(self, t, y, rh, grad, dP) ==
    [t |-> t, y |-> y, printed |-> NegativeState(y), branch |-> grad.branch,
     dy |-> <<RDiv(RMul(RMul(R(2), rh), self.z0), self.sigma_norm),
              dP,
              dQdz(self, y, t),
              RDiv(RMul(RMul(grad.val, dP), y[Vars.T]), y[Vars.P])>>,
     computed |-> TRUE]

dy_rho(self, t, y, rh) ==
    Only({dy_rows(self, t, y, rh, grad, dP)
          : grad \in {dlnTdlnP(self, y, t)}, dP \in {dy_P(self, t, rh)}})

\* dydt: the right side of the system.  When S or T is negative it prints,
\* calls breakpoint() and, once that returns, goes on to line 194.
dydt(self, t, y) == Only({dy_rho(self, t, y, rh) : rh \in {rho(self, y)}})

\* Q_initial()
Q_initial == One

\* P_ph(): the last point of the photospheric solve_ivp, which starts from
\* 1e-7 * P_norm; g is the growth of the pressure along [0, 2/3]
P_ph(self, g) == RMul(g, self.P_norm)

\* initial(): S = 0, P = P_ph / P_norm, Q = Q_initial, T = (Q_initial Q_norm / sigmaSB)^(1/4) / T_norm
initial(self, g) ==
    <<Zero,
      RDiv(P_ph(self, g), self.P_norm),
      Q_initial,
      RDiv(RRoot(RDiv(RMul(Q_initial, self.Q_norm), R(sigmaSB)), 4), self.T_norm)>>

-----------------------------------------------------------------------------
(* Queries: what they compute from the integrated profile *)

\* parameters_C(): varkappa_C, rho_C, T_C, P_C, Sigma0 from the column y_c
parameters_C(self, y_c) ==
    <<opacity(self, y_c),
      rho(self, y_c),
      RMul(y_c[Vars.T], self.T_norm),
      RMul(y_c[Vars.P], self.P_norm),
      RMul(y_c[Vars.S], self.sigma_norm)>>

\* tau0(): Sigma0 * varkappa_C / 2
tau0(self, y_c) ==
    Only({RDiv(RMul(p[5], p[1]), R(2)) : p \in {parameters_C(self, y_c)}})

\* the four Pi of Pi_finder() for the midplane parameters p
Pi_real(self, p) ==
    <<RDiv(RMul(RMul(RPow(self.omegaK, 2), RPow(self.z0, 2)), p[2]), p[4]),
      RDiv(p[5], RMul(RMul(R(2), self.z0), p[2])),
      RMul(Frac(3, 4),
           RDiv(RMul(RMul(RMul(self.alpha, self.omegaK), p[4]), p[5]),
                RMul(self.Q0, p[2]))),
      RMul(RMul(Frac(3, 32), RPow(RDiv(self.Teff, p[3]), 4)), RMul(p[5], p[1]))>>

Pi_finder(self, y_c) == Only({Pi_real(self, p) : p \in {parameters_C(self, y_c)}})

\* tau(): z0 * simps(varkappa * rho, t) over the columns of the profile
tau(self, y0, y1) ==
    RMul(self.z0,
         RDiv(RAdd(RMul(opacity(self, y0), rho(self, y0)),
                   RMul(opacity(self, y1), rho(self, y1))),
              R(2)))

\* the value each query returns for the profile from y0 to y1
query_value(q, self, y0, y1) ==
    CASE q = "integrate" -> <<y0, y1>>
      [] q = "tau" -> tau(self, y0, y1)
      [] q = "parameters_C" -> parameters_C(self, y1)
      [] q = "tau0" -> tau0(self, y1)
      [] q = "Pi_finder" -> Pi_finder(self, y1)


-----------------------------------------------------------------------------
(* Bounds and inputs of the model *)

\* z0r *= factor leaves the float range after MaxExp doublings or halvings of 1
MaxExp == 2

\* iteration budget of the root refiner (maxiter of brentq)
BrentMaxIter == 3

\* operations the caller starts on one session
MaxCalls == 2

MassSet == {R(1), R(-1)}
AlphaSet == {Zero, Frac(1, 2)}
RadiusSet == {R(2)}
FluxSet == {R(1)}

\* the defaults eps = 1e-5 (the nearest the format holds) and mu = 0.6
EpsDefault == Frac(1, Cap - 1)
MuDefault == Frac(3, 5)

\* values the caller assigns to z0
CallerZ0 == {R(3)}

\* the scale z0 at which the photospheric pressure makes Q(1) vanish: none above
\* (Inf), none below (Zero), at a trial scale, at a point the refiner proposes,
\* and between two such points
CrossingSet == {Inf, Zero, R(1), R(2), R(3), Frac(13, 4)}

\* stage points solve_ivp may try besides the accepted step
StageT == {Frac(1, 2)}
StageY == {<<Zero, One, One, R(-1)>>}

\* the queries of a session besides y_c()
Queries == {"integrate", "tau", "parameters_C", "tau0", "Pi_finder"}

ValidInputs(Mx, alpha, r) == IsPos(Mx) /\ IsPos(alpha) /\ RLt(alpha, One) /\ IsPos(r)

-----------------------------------------------------------------------------
(* State *)

VARIABLES
    self,      \* the session object
    pc,        \* position of the running call, "idle" between calls
    ret,       \* where the running integration returns to
    t, y,      \* integration coordinate and state vector of the solver
    q_c,       \* Q(t = 1) returned by the last y_c()
    lastEval,  \* the last evaluation of dydt
    crossing,  \* the scale at which the photosphere makes Q(1) vanish
    z0r, sign_dq, factor,   \* locals of fit()
    brent,     \* locals of brentq
    result,    \* what the last fit() returned
    err,       \* the exception the last call raised
    dqarg,     \* argument of the last dq()
    dqlog,     \* <<argument, value>> of every dq() that returned
    redone,    \* arguments evaluated again after another one
    ncalls,    \* calls started by the caller
    qout       \* what the query that has just returned hands to the caller

vars == <<self, pc, ret, t, y, q_c, lastEval, crossing, z0r, sign_dq, factor, brent,
          result, err, dqarg, dqlog, redone, ncalls, qout>>

NoY == <<NaN, NaN, NaN, NaN>>
NoEval == [t |-> NaN, y |-> NoY, printed |-> FALSE, branch |-> "none", dy |-> NoY,
           computed |-> FALSE]
NoBrent == [xpre |-> NaN, xcur |-> NaN, xblk |-> NaN, fpre |-> NaN, fcur |-> NaN,
            fblk |-> NaN, iter |-> 0, lo |-> NaN]
NoResult == [kind |-> "none", z0r |-> NaN, converged |-> FALSE]
NoOut == [op |-> "none", val |-> NaN]

Init ==
    /\ self = NoSession
    /\ pc = "new"
    /\ ret = "none"
    /\ t = NaN
    /\ y = NoY
    /\ q_c = NaN
    /\ lastEval = NoEval
    /\ crossing = NaN
    /\ z0r = NaN
    /\ sign_dq = NaN
    /\ factor = NaN
    /\ brent = NoBrent
    /\ result = NoResult
    /\ err = "none"
    /\ dqarg = NaN
    /\ dqlog = {}
    /\ redone = {}
    /\ ncalls = 0
    /\ qout = NoOut


-----------------------------------------------------------------------------
(* Helpers of the actions *)

Finite(v) == \A i \in 1..4 : IsFinite(v[i])

VAdd(v, w) == [i \in 1..4 |-> RAdd(v[i], w[i])]

\* the growth of the pressure that the photospheric solve_ivp finds at scale z:
\* a function of the session alone, larger for a thicker disc
PhGrowth(c, z) ==
    IF ~IsFinite(z) \/ IsZero(z) THEN One
    ELSE IF RLt(z, c) THEN Frac(1, 4)
    ELSE IF z = c THEN Frac(1, 2)
    ELSE One

\* integrate([0, 1]) on session s: initial() runs P_ph(), then solve_ivp starts at t = 0
Integrate(s, label) ==
    /\ y' = initial(s, PhGrowth(crossing, s.z0))
    /\ t' = Zero
    /\ UNCHANGED crossing
    /\ ret' = label
    /\ pc' = "ode"

\* an assignment that scales the current z0 instead of r
dq_assign_drift(s, z) == z0_setter(s, RMul(z, s.z0))

\* the assignment of dq(): self.z0 = z0r * self.r
dq_assign(s, z) == z0_setter(s, RMul(z, s.r))

\* a dq() that integrates from the initial conditions of the earlier candidate
dq_reuse(z, label) ==
    /\ self' = dq_assign(self, z)
    /\ Integrate(self, label)
    /\ dqarg' = z
    /\ redone' = redone

\* dq(z): assign z0, then y_c() integrates
dq(z, label) ==
    /\ \E s \in {dq_assign(self, z)} :
          /\ self' = s
          /\ Integrate(s, label)
    /\ dqarg' = z
    /\ redone' = IF (\E p \in dqlog : p[1] = z) /\ dqarg # z
                 THEN redone \cup {z} ELSE redone

\* an exception leaves the running call and reaches the caller
Raise(e) ==
    /\ pc' = "idle"
    /\ err' = e
    /\ ret' = "none"
    /\ z0r' = NaN
    /\ sign_dq' = NaN
    /\ factor' = NaN
    /\ brent' = NoBrent

\* z0r *= factor in a float whose exponent range ends at MaxExp
Saturate(x) ==
    Only({IF RLt(R(2^MaxExp), v) THEN Inf
          ELSE IF IsPos(v) /\ RLt(v, Frac(1, 2^MaxExp)) THEN Zero
          ELSE v
          : v \in {x}})

\* a factor chosen the other way round
factor_of_swapped(q) == IF RLt(Zero, q) THEN Frac(1, 2) ELSE R(2)

\* if sign_dq > 0: factor = 2.0, else: factor = 0.5
factor_of(q) == IF RLt(Zero, q) THEN R(2) ELSE Frac(1, 2)

InFit == ret \in {"fit_first", "fit_test", "brent_fa", "brent_fb", "brent_f"}

-----------------------------------------------------------------------------
(* Construction and the caller *)

\* IdealKramersVerticalStructure(Mx, alpha, r, F): __init__ checks nothing
Construct(Mx, alpha, r, F, c) ==
    /\ pc = "new"
    /\ crossing' = c
    /\ IF Z0InitRaises(Mx, alpha)
       THEN /\ self' = InitAttrs(Mx, alpha, r, F, EpsDefault, MuDefault)
            /\ pc' = "ctor_raised"
            /\ err' = "ZeroDivisionError"
       ELSE /\ self' = Constructed(Mx, alpha, r, F, EpsDefault, MuDefault)
            /\ pc' = "idle"
            /\ err' = "none"
    /\ UNCHANGED <<qout, ret, t, y, q_c, lastEval, z0r, sign_dq, factor, brent,
                   result, dqarg, dqlog, redone, ncalls>>

\* vs.z0 = z by the caller
SetZ0(z) ==
    /\ pc = "idle"
    /\ ncalls < MaxCalls
    /\ ncalls' = ncalls + 1
    /\ qout' = NoOut
    /\ self' = z0_setter(self, z)
    /\ UNCHANGED <<pc, ret, t, y, q_c, lastEval, crossing, z0r, sign_dq, factor, brent,
                   result, err, dqarg, dqlog, redone>>

\* vs.y_c() by the caller
CallYc ==
    /\ pc = "idle"
    /\ ncalls < MaxCalls
    /\ ncalls' = ncalls + 1
    /\ qout' = NoOut
    /\ err' = "none"
    /\ Integrate(self, "y_c")
    /\ UNCHANGED <<self, q_c, lastEval, z0r, sign_dq, factor, brent, result,
                   dqarg, dqlog, redone>>

\* y_c() hands its vector to the caller
YcReturn ==
    /\ pc = "y_c"
    /\ pc' = "idle"
    /\ ret' = "none"
    /\ UNCHANGED <<qout, self, t, y, q_c, lastEval, crossing, z0r, sign_dq, factor, brent,
                   result, err, dqarg, dqlog, redone, ncalls>>

\* a query that moves the session to twice its z0 before it integrates
CallQuery_rescaling(q) ==
    /\ pc = "idle"
    /\ ncalls < MaxCalls
    /\ ncalls' = ncalls + 1
    /\ qout' = NoOut
    /\ err' = "none"
    /\ \E s \in {z0_setter(self, RMul(R(2), self.z0))} :
          /\ self' = s
          /\ Integrate(s, q)
    /\ UNCHANGED <<q_c, lastEval, z0r, sign_dq, factor, brent, result,
                   dqarg, dqlog, redone>>

\* vs.integrate(t), vs.tau(), vs.parameters_C(), vs.tau0(), vs.Pi_finder() by the
\* caller: each starts with integrate()
CallQuery(q) ==
    /\ pc = "idle"
    /\ ncalls < MaxCalls
    /\ ncalls' = ncalls + 1
    /\ qout' = NoOut
    /\ err' = "none"
    /\ Integrate(self, q)
    /\ UNCHANGED <<self, q_c, lastEval, z0r, sign_dq, factor, brent, result,
                   dqarg, dqlog, redone>>

\* the profile is back: the query computes its value and returns it.  tau() of
\* a profile that ends at t = 0 hands simps arrays of different lengths.
QueryReturn ==
    /\ pc \in Queries
    /\ IF pc = "tau" /\ t = Zero
       THEN /\ Raise("ValueError")
            /\ UNCHANGED qout
       ELSE /\ \E v \in {query_value(pc, self, initial(self, PhGrowth(crossing, self.z0)), y)} :
                  qout' = [op |-> pc, val |-> v]
            /\ pc' = "idle"
            /\ ret' = "none"
            /\ UNCHANGED <<err, z0r, sign_dq, factor, brent>>
    /\ UNCHANGED <<self, t, y, q_c, lastEval, crossing, result, dqarg, dqlog, redone,
                   ncalls>>

-----------------------------------------------------------------------------
(* solve_ivp(dydt, (0, 1), initial(), method='RK23'), seen from its callback *)

\* breakpoint() either returns or is left with BdbQuit
BreakpointOutcomes(e) == IF e.printed THEN {"continue", "quit"} ELSE {"continue"}

\* the solution ends: y_c() returns the last column, dq() its Q
Finish ==
    /\ pc' = ret
    /\ q_c' = y[Vars.Q]
    /\ dqlog' = IF InFit THEN dqlog \cup {<<dqarg, y[Vars.Q]>>} ELSE dqlog
    /\ UNCHANGED <<t, y, ret>>

\* the initial state is not finite: the step size is NaN and the step loop never
\* ends, or solve_ivp refuses the state with ValueError
OdeNonFinite ==
    /\ pc = "ode"
    /\ t = Zero
    /\ ~Finite(y)
    /\ \/ /\ pc' = "hung"
          /\ lastEval' = dydt(self, t, y)
          /\ UNCHANGED <<ret, err, z0r, sign_dq, factor, brent>>
       \/ /\ Raise("ValueError")
          /\ UNCHANGED lastEval
    /\ UNCHANGED <<qout, self, t, y, q_c, crossing, result, dqarg, dqlog, redone, ncalls>>

\* an accepted evaluation: at t = 0 the step to t = 1, at t = 1 the end.  A step
\* to a state that is not finite is never accepted: the solver gives up and the
\* solution, whose status nobody reads, ends at t = 0.
OdeStep ==
    /\ pc = "ode"
    /\ Finite(y)
    /\ \E e \in {dydt(self, t, y)} :
          \E o \in BreakpointOutcomes(e), y1 \in {VAdd(y, e.dy)} :
             IF o = "quit"
             THEN /\ lastEval' = [e EXCEPT !.dy = NoY, !.computed = FALSE]
                  /\ Raise("BdbQuit")
                  /\ UNCHANGED <<t, y, q_c, dqlog>>
             ELSE /\ lastEval' = e
                  /\ IF t = Zero /\ Finite(y1)
                     THEN /\ y' = y1
                          /\ t' = One
                          /\ UNCHANGED <<pc, ret, q_c, dqlog>>
                     ELSE Finish
                  /\ UNCHANGED <<err, z0r, sign_dq, factor, brent>>
    /\ UNCHANGED <<qout, self, crossing, result, dqarg, redone, ncalls>>

\* an evaluation at a stage point of a step from t = 0 that the solver then rejects
OdeStage(ts, ys) ==
    /\ pc = "ode"
    /\ t = Zero
    /\ Finite(y)
    /\ \E e \in {dydt(self, ts, ys)} :
          \E o \in BreakpointOutcomes(e) :
             IF o = "quit"
             THEN /\ lastEval' = [e EXCEPT !.dy = NoY, !.computed = FALSE]
                  /\ Raise("BdbQuit")
             ELSE /\ lastEval' = e
                  /\ UNCHANGED <<pc, ret, err, z0r, sign_dq, factor, brent>>
    /\ UNCHANGED <<qout, self, t, y, q_c, crossing, result, dqarg, dqlog, redone, ncalls>>

-----------------------------------------------------------------------------
(* fit() *)

\* vs.fit() by the caller: z0r = self.z0 / self.r, then sign_dq = dq(z0r)
FitCall ==
    /\ pc = "idle"
    /\ ncalls < MaxCalls
    /\ ncalls' = ncalls + 1
    /\ qout' = NoOut
    /\ err' = "none"
    /\ result' = NoResult
    /\ z0r' = RDiv(self.z0, self.r)
    /\ dq(RDiv(self.z0, self.r), "fit_first")
    /\ UNCHANGED <<q_c, lastEval, sign_dq, factor, brent, dqlog>>

\* sign_dq is back: choose the factor and enter the loop with the first z0r *= factor
FitFirst ==
    /\ pc = "fit_first"
    /\ sign_dq' = q_c
    /\ factor' = factor_of(q_c)
    /\ z0r' = Saturate(RMul(z0r, factor'))
    /\ dq(z0r', "fit_test")
    /\ UNCHANGED <<qout, q_c, lastEval, brent, result, err, dqlog, ncalls>>

\* sign_dq * dq(z0r) < 0 is false: the loop goes round
FitLoop ==
    /\ pc = "fit_test"
    /\ ~RLt(RMul(sign_dq, q_c), Zero)
    /\ z0r' = Saturate(RMul(z0r, factor))
    /\ dq(z0r', "fit_test")
    /\ UNCHANGED <<qout, q_c, lastEval, sign_dq, factor, brent, result, err, dqlog, ncalls>>

\* break, then brentq(dq, z0r, z0r / factor) evaluates f(a)
FitBreak ==
    /\ pc = "fit_test"
    /\ RLt(RMul(sign_dq, q_c), Zero)
    /\ LET a == z0r
           b == RDiv(z0r, factor)
       IN  brent' = [NoBrent EXCEPT !.xpre = a, !.xcur = b, !.xblk = Zero, !.fblk = Zero,
                                    !.lo = IF RLt(a, b) THEN a ELSE b]
    /\ dq(z0r, "brent_fa")
    /\ UNCHANGED <<qout, q_c, lastEval, z0r, sign_dq, factor, result, err, dqlog, ncalls>>


-----------------------------------------------------------------------------
(* brentq(dq, a, b, full_output=True) *)

\* brentq called with disp=False: the flag is only recorded in the result
results_c_nodisp(x, flag) ==
    [kind |-> "returned", z0r |-> x, converged |-> flag = "CONVERGED"]

\* what the caller of brentq gets for the flag of the C routine: full_output
\* returns (root, RootResults), and disp, left at True, raises on CONVERR
results_c(x, flag) ==
    IF flag = "CONVERGED"
    THEN [kind |-> "returned", z0r |-> x, converged |-> TRUE]
    ELSE [kind |-> "raised", z0r |-> NaN, converged |-> FALSE]

\* brentq is over: fit() returns z0r, result or the RuntimeError goes up
BrentEnd(x, flag) ==
    LET out == results_c(x, flag)
    IN  /\ pc' = "idle"
        /\ ret' = "none"
        /\ result' = IF out.kind = "returned" THEN out ELSE NoResult
        /\ err' = IF out.kind = "returned" THEN "none" ELSE "RuntimeError"
        /\ z0r' = IF out.kind = "returned" THEN x ELSE NaN
        /\ sign_dq' = NaN
        /\ factor' = NaN
        /\ brent' = NoBrent

\* the points between the two trial scales that the refiner can propose
Grid(lo) == {RMul(lo, Frac(5, 4)), RMul(lo, Frac(3, 2)), RMul(lo, Frac(7, 4))}

Between(p, a, b) == (RLt(a, p) /\ RLt(p, b)) \/ (RLt(b, p) /\ RLt(p, a))

Interior(b) == {p \in Grid(b.lo) : Between(p, b.xcur, b.xblk)}

\* fpre = f(xpre) is back: evaluate f(xcur)
BrentFa ==
    /\ pc = "brent_fa"
    /\ brent' = [brent EXCEPT !.fpre = q_c]
    /\ dq(brent.xcur, "brent_fb")
    /\ UNCHANGED <<qout, q_c, lastEval, z0r, sign_dq, factor, result, err, dqlog, ncalls>>

\* fcur = f(xcur) is back: the sign test and the two exact-zero returns
BrentFb ==
    /\ pc = "brent_fb"
    /\ LET fpre == brent.fpre
           fcur == q_c
       IN  IF RLt(Zero, RMul(fpre, fcur))
           THEN /\ Raise("ValueError")
                /\ UNCHANGED result
           ELSE IF IsZero(fpre) THEN BrentEnd(brent.xpre, "CONVERGED")
           ELSE IF IsZero(fcur) THEN BrentEnd(brent.xcur, "CONVERGED")
           ELSE /\ brent' = [brent EXCEPT !.fcur = fcur]
                /\ pc' = "brent_iter"
                /\ UNCHANGED <<ret, result, err, z0r, sign_dq, factor>>
    /\ UNCHANGED <<qout, self, t, y, q_c, lastEval, crossing, dqarg, dqlog, redone, ncalls>>

\* the head of one loop iteration: re-bracket, keep the best point in xcur
Reblock(b) ==
    IF RLt(RMul(b.fpre, b.fcur), Zero)
    THEN [b EXCEPT !.xblk = b.xpre, !.fblk = b.fpre]
    ELSE b

Swap(b1) ==
    IF RLt(RAbs(b1.fblk), RAbs(b1.fcur))
    THEN [b1 EXCEPT !.xpre = b1.xcur, !.xcur = b1.xblk, !.xblk = b1.xcur,
                    !.fpre = b1.fcur, !.fcur = b1.fblk, !.fblk = b1.fcur]
    ELSE b1

Rebracket(b) == Swap(Reblock(b))

\* one loop iteration up to the evaluation of the next point
BrentIter ==
    /\ pc = "brent_iter"
    /\ IF brent.iter = BrentMaxIter
       THEN /\ BrentEnd(brent.xcur, "CONVERR")
            /\ UNCHANGED <<self, t, y, crossing, dqarg, redone>>
       ELSE \E b \in {Rebracket(brent)} :
                IF IsZero(b.fcur) \/ Interior(b) = {}
                THEN /\ BrentEnd(b.xcur, "CONVERGED")
                     /\ UNCHANGED <<self, t, y, crossing, dqarg, redone>>
                ELSE \E p \in Interior(b) :
                        /\ brent' = [b EXCEPT !.xpre = b.xcur, !.fpre = b.fcur,
                                              !.xcur = p, !.iter = b.iter + 1]
                        /\ dq(p, "brent_f")
                        /\ UNCHANGED <<result, err, z0r, sign_dq, factor>>
    /\ UNCHANGED <<qout, q_c, lastEval, dqlog, ncalls>>

\* fcur = f(xcur) is back: next iteration
BrentF ==
    /\ pc = "brent_f"
    /\ brent' = [brent EXCEPT !.fcur = q_c]
    /\ pc' = "brent_iter"
    /\ UNCHANGED <<qout, self, ret, t, y, q_c, lastEval, crossing, z0r, sign_dq, factor,
                   result, err, dqarg, dqlog, redone, ncalls>>

-----------------------------------------------------------------------------
(* The specification *)

\* the steps of the program itself, once a call runs
Progress ==
    \/ YcReturn
    \/ QueryReturn
    \/ OdeNonFinite
    \/ OdeStep
    \/ FitFirst
    \/ FitLoop
    \/ FitBreak
    \/ BrentFa
    \/ BrentFb
    \/ BrentIter
    \/ BrentF

Next ==
    \/ \E Mx \in MassSet, alpha \in AlphaSet, r \in RadiusSet, F \in FluxSet,
          c \in CrossingSet :
          Construct(Mx, alpha, r, F, c)
    \/ \E z \in CallerZ0 : SetZ0(z)
    \/ CallYc
    \/ \E q \in Queries : CallQuery(q)
    \/ FitCall
    \/ \E ts \in StageT, ys \in StageY : OdeStage(ts, ys)
    \/ Progress

Spec == Init /\ [][Next]_vars

\* a running call keeps running
FairSpec == Spec /\ WF_vars(Progress)


-----------------------------------------------------------------------------
(* Properties *)

\* a session exists: __init__ ran to its end
Built == pc \notin {"new", "ctor_raised"}

ValidSession == Built /\ ValidInputs(self.Mx, self.alpha, self.r)

\* fit() is on the stack
InFitCall ==
    \/ pc \in {"fit_first", "fit_test", "brent_fa", "brent_fb", "brent_iter", "brent_f"}
    \/ (pc \in {"ode", "hung"} /\ InFit)

\* fit() has handed (z0r, result) to the caller
Returned == pc = "idle" /\ result.kind = "returned"

\* C1: for valid inputs a call of fit() terminates: it comes back to its caller,
\* the bracketing loop exits after finitely many trials.
C1_FitTerminates == (InFitCall /\ ValidSession) ~> (pc = "idle")

\* C2: whenever fit() returns (z0r, result), result.converged is true, and a
\* refinement that runs out of iterations ends fit() with an exception and no
\* returned value.
C2_FailedNeverReturns ==
    [][/\ (result'.kind = "returned" => result'.converged)
       /\ (pc = "brent_iter" /\ brent.iter = BrentMaxIter
             => pc' = "idle" /\ err' = "RuntimeError" /\ result'.kind = "none")]_vars

C2_Witness == pc = "idle" /\ err = "RuntimeError" /\ result.kind = "none" /\ ValidSession

\* C3: a session with a non-positive mass or radius or alpha outside (0, 1) is
\* rejected at construction: no such session is ever built, none reaches fit()
\* or integrate().
C3_InvalidRejected == Built => ValidInputs(self.Mx, self.alpha, self.r)

\* C4: when the residual never changes sign along the trials, the bracketing loop
\* of fit() is left after a bounded number of expansions.
C4_BracketingStops == (ret = "fit_test" /\ ValidSession) ~> (ret # "fit_test")

\* C5: when S or T is negative at an evaluation of the right side, no derivative
\* is computed from the negative state.
C5_FailFast == lastEval.printed => ~lastEval.computed


\* C6: in every state of a built session P_norm, T_norm and sigma_norm are
\* (4/3) Q_norm / (alpha z0 omegaK), omegaK^2 mu z0^2 / R_gas and
\* 28 Q_norm / (3 alpha z0^2 omegaK^3) of the current z0.
C6_ScalesFollowZ0 ==
    Built =>
      /\ self.P_norm = RDiv(RMul(Frac(4, 3), self.Q_norm),
                            RMul(RMul(self.alpha, self.z0), self.omegaK))
      /\ self.T_norm = RDiv(RMul(RMul(RPow(self.omegaK, 2), self.mu), RPow(self.z0, 2)),
                            R(R_gas))
      /\ self.sigma_norm = RDiv(RMul(R(28), self.Q_norm),
                                RMul(RMul(RMul(R(3), self.alpha), RPow(self.z0, 2)),
                                     RPow(self.omegaK, 3)))

\* fit() is at a trial scale other than the initial one, with finite scales
C6_Witness ==
    /\ InFitCall
    /\ ValidSession
    /\ self.z0 # z0_init(self)
    /\ IsFinite(self.P_norm) /\ IsPos(self.P_norm)
    /\ IsFinite(self.sigma_norm) /\ IsPos(self.sigma_norm)

\* C7: Teff, Q_norm = Q0 and omegaK are what construction computed from the
\* inputs, and no later step changes them.
C7_FixedAtConstruction ==
    [][/\ Built =>
            /\ self'.Teff = self.Teff
            /\ self'.Q_norm = self.Q_norm
            /\ self'.Q0 = self.Q0
            /\ self'.omegaK = self.omegaK
       /\ (pc = "new" /\ pc' = "idle") =>
            /\ self'.omegaK = RRoot(RDiv(RMul(R(G), self'.Mx), RPow(self'.r, 3)), 2)
            /\ self'.Q_norm = RDiv(RMul(RMul(RDiv(R(3), RMul(R(8), Pi)), self'.F),
                                        self'.omegaK),
                                   RPow(self'.r, 2))
            /\ self'.Q0 = self'.Q_norm
            /\ self'.Teff = RRoot(RDiv(self'.Q0, R(sigmaSB)), 4)]_vars

\* fit() has returned with z0 moved away from its initial value
C7_Witness ==
    /\ Returned
    /\ ValidSession
    /\ self.z0 # z0_init(self)
    /\ IsFinite(self.Teff) /\ IsPos(self.Teff)

\* C8: dq() returns the same residual whenever it is given the same z0r, whatever
\* trials came in between.
C8_ResidualIdempotent == \A p \in dqlog, q \in dqlog : p[1] = q[1] => p[2] = q[2]

\* a scale was evaluated, then another one, then the first again
C8_Witness == ValidSession /\ \E z \in redone : \E p \in dqlog : p[1] = z /\ IsFinite(p[2])

\* C9: S starts at 0, no accepted step lowers it, and dy[S] is not negative for
\* a state with positive P and T.
C9_MassCoordinateGrows ==
    [][/\ (pc' = "ode" /\ t' = Zero) => y'[Vars.S] = Zero
       /\ (pc = "ode" /\ pc' = "ode" /\ t = Zero /\ t' = One)
            => RLe(y[Vars.S], y'[Vars.S])
       /\ (lastEval'.computed /\ IsPos(lastEval'.y[Vars.P]) /\ IsPos(lastEval'.y[Vars.T]))
            => RLe(Zero, lastEval'.dy[Vars.S])]_vars

\* the step to the midplane has raised S
C9_Witness == pc = "ode" /\ t = One /\ ValidSession /\ RLt(Zero, y[Vars.S])

\* C10 as stated: the closed form is used exactly at coordinate 0
C10_ClosedAtSurface ==
    lastEval.branch # "none" => (lastEval.branch = "closed" <=> lastEval.t = Zero)

\* C10: the closed form of the temperature gradient is used exactly when the
\* coordinate t is 1 (the midplane), the general formula for every t in [0, 1).
C10_ClosedAtMidplane ==
    lastEval.branch # "none" => (lastEval.branch = "closed" <=> lastEval.t = One)

\* the evaluation at the midplane took the closed form
C10_Witness == lastEval.branch = "closed" /\ lastEval.t = One /\ lastEval.computed

\* C11: the factor is fixed from the first residual (2 if positive, 0.5 if
\* negative) and kept; each later trial is the previous one times the factor; the
\* loop is left exactly at the first trial whose residual has the strictly
\* opposite sign to the first; the refiner gets that trial and the one before
\* it, whose residuals have a product <= 0.
C11_ConsecutiveBracket ==
    [][/\ pc = "fit_first" =>
            /\ (IsPos(q_c) => factor' = R(2))
            /\ (IsNeg(q_c) => factor' = Frac(1, 2))
            /\ z0r' = Saturate(RMul(z0r, factor'))
       /\ (pc = "fit_test" /\ pc' # "idle") =>
            /\ factor' = factor /\ sign_dq' = sign_dq
            /\ (ret' = "brent_fa" <=> RLt(RMul(sign_dq, q_c), Zero))
            /\ (ret' = "fit_test" => z0r' = Saturate(RMul(z0r, factor)))
       /\ (pc \in {"fit_first", "fit_test"} /\ ret' = "fit_test"
             /\ IsFinite(z0r') /\ ~IsZero(z0r'))
            => RDiv(z0r', factor') = z0r
       /\ (pc = "fit_test" /\ ret' = "brent_fa") =>
            /\ brent'.xpre = z0r /\ brent'.xcur = RDiv(z0r, factor)
            /\ \E p \in dqlog, q \in dqlog :
                  p[1] = brent'.xpre /\ q[1] = brent'.xcur
            /\ \A p \in dqlog, q \in dqlog :
                  (p[1] = brent'.xpre /\ q[1] = brent'.xcur)
                     => RLe(RMul(p[2], q[2]), Zero)]_vars

\* the refiner has started on a bracket found after more than one expansion
C11_Witness ==
    /\ ret = "brent_fa"
    /\ ValidSession
    /\ \E p \in dqlog, q \in dqlog :
          /\ p[1] = brent.xpre /\ q[1] = brent.xcur
          /\ RLt(RMul(p[2], q[2]), Zero)
    /\ \E p \in dqlog : p[1] \notin {brent.xpre, brent.xcur}

\* C12: every call of fit() evaluates its first residual at the closed-form
\* estimate z0_init() / r, also a second call and a call after the caller
\* assigned z0.
C12_StartsAtEstimate ==
    [][(pc = "idle" /\ ValidSession /\ ret' = "fit_first")
          => dqarg' = RDiv(z0_init(self), self.r)]_vars

\* C13: every residual evaluation of fit(), in the bracketing and in the
\* refinement, first recomputes the scales for the candidate z0 = z0r * r, then
\* finds the photospheric pressure with that z0 and those scales, then starts
\* the interior integration at t = 0 from the initial state built from that
\* pressure: nothing of an earlier candidate is used.
C13_EvaluationRecomputes ==
    [][(pc # "ode" /\ pc' = "ode" /\ ret' \in {"fit_first", "fit_test", "brent_fa",
                                               "brent_fb", "brent_f"}) =>
          /\ self'.z0 = RMul(dqarg', self.r)
          /\ self' = z0_setter(self, self'.z0)
          /\ y'[Vars.P] = RDiv(P_ph(self', PhGrowth(crossing, self'.z0)), self'.P_norm)
          /\ y'[Vars.T] = RDiv(RRoot(RDiv(RMul(Q_initial, self'.Q_norm), R(sigmaSB)), 4),
                               self'.T_norm)
          /\ y'[Vars.S] = Zero /\ y'[Vars.Q] = Q_initial
          /\ t' = Zero]_vars

\* the refiner evaluates a point after the trials of the bracketing
C13_Witness ==
    /\ pc = "ode" /\ ret = "brent_f" /\ t = Zero
    /\ ValidSession
    /\ Finite(y)
    /\ self.z0 = RMul(dqarg, self.r)
    /\ \E p \in dqlog : p[1] # dqarg /\ RLt(p[1], dqarg)
    /\ \E p \in dqlog : p[1] # dqarg /\ RLt(dqarg, p[1])

\* C14: when a trial of fit(), the starting estimate included, has a residual of
\* exactly zero, fit() returns that trial as the converged z0 / r and evaluates
\* no further trial.
C14_StopsAtExactZero ==
    [][(pc \in {"fit_first", "fit_test"} /\ ValidSession /\ IsZero(q_c))
          => (pc' = "idle" /\ result'.kind = "returned" /\ result'.converged
              /\ result'.z0r = z0r)]_vars

\* C15: at the step where fit() returns (z0r, result), the z0 of the session is
\* z0r * r.
C15_SessionAtRoot ==
    [][(pc # "idle" /\ pc' = "idle" /\ result'.kind = "returned" /\ ValidSession)
          => self'.z0 = RMul(result'.z0r, self'.r)]_vars

\* C16: integrate(t), y_c(), tau(), parameters_C(), tau0() and Pi_finder() leave
\* z0, P_norm, T_norm, sigma_norm, Teff and Mx, alpha, r, F, eps, mu of the
\* session as they were, at every step from the call to the return, whatever
\* assignments to z0 and calls of fit() came before.
C16_QueriesReadOnly ==
    [][((pc = "idle" /\ ret' \in Queries \cup {"y_c"}) \/ ret \in Queries \cup {"y_c"})
          => /\ self'.z0 = self.z0
             /\ self'.P_norm = self.P_norm
             /\ self'.T_norm = self.T_norm
             /\ self'.sigma_norm = self.sigma_norm
             /\ self'.Teff = self.Teff
             /\ \A f \in {"Mx", "alpha", "r", "F", "eps", "mu"} : self'[f] = self[f]]_vars

\* Pi_finder() has returned on a session that fit() had moved to its root
C16_Witness ==
    /\ pc = "idle"
    /\ qout.op = "Pi_finder"
    /\ Returned
    /\ ValidSession
    /\ self.z0 # z0_init(self)
    /\ \A i \in 1..4 : IsFinite(qout.val[i])

=============================================================================
